---- MODULE Spec2Model ----
(***************************************************************************)
(* Wheel filename parsing and rendering (uv-distribution-filename,         *)
(* wheel.rs).                                                              *)
(*                                                                         *)
(* Text is a sequence of symbols.  A symbol is one character ("-", ".",    *)
(* "_", "/", "!", a digit, a letter) or an indivisible alphanumeric word   *)
(* ("none", "any", "py3", "abi3", "win32", "whl", "rs") that contains no   *)
(* separator, so that splitting and suffix stripping act on symbols as     *)
(* they act on characters.                                                 *)
(***************************************************************************)
EXTENDS Integers, Sequences, FiniteSets, TLC

(***************************************************************************)
(* Bound of the model: the largest number of dash-separated segments of a  *)
(* generated stem.                                                         *)
(***************************************************************************)
MaxSegs == 7

(***************************************************************************)
(* Option<T>: None is the empty sequence, Some(x) the one-element one.     *)
(***************************************************************************)
None == <<>>

Some(x) == <<x>>

is_some(o) == Len(o) = 1

unwrap(o) == o[1]

(***************************************************************************)
(* str::split(sep): always yields one or more pieces.                      *)
(***************************************************************************)
RECURSIVE split(_, _)
split(s, sep) ==
    IF \A i \in 1..Len(s) : s[i] # sep
    THEN <<s>>
    ELSE LET k == CHOOSE i \in 1..Len(s) :
                      s[i] = sep /\ \A j \in 1..(i - 1) : s[j] # sep
         IN  <<SubSeq(s, 1, k - 1)>> \o split(SubSeq(s, k + 1, Len(s)), sep)

(***************************************************************************)
(* Iterator::next, called for the i-th time on a fresh iterator.           *)
(***************************************************************************)
next(parts, i) == IF i <= Len(parts) THEN Some(parts[i]) ELSE None

(***************************************************************************)
(* <[String]>::join(sep).                                                  *)
(***************************************************************************)
RECURSIVE join(_, _)
join(ss, sep) ==
    IF Len(ss) = 0 THEN <<>>
    ELSE IF Len(ss) = 1 THEN ss[1]
    ELSE ss[1] \o <<sep>> \o join(Tail(ss), sep)

(***************************************************************************)
(* str::strip_suffix(".whl").                                              *)
(***************************************************************************)
WhlSuffix == <<".", "whl">>

strip_suffix(s, suf) ==
    IF Len(s) >= Len(suf) /\ SubSeq(s, Len(s) - Len(suf) + 1, Len(s)) = suf
    THEN Some(SubSeq(s, 1, Len(s) - Len(suf)))
    ELSE None

(***************************************************************************)
(* Symbol classes.                                                         *)
(***************************************************************************)
Digits == <<"0", "1", "2", "3", "4", "5", "6", "7", "8", "9">>

IsDigit(c) == \E d \in 1..10 : Digits[d] = c

DigitVal(c) == (CHOOSE d \in 1..10 : Digits[d] = c) - 1

Words == {"none", "any", "py3", "abi3", "win32", "whl", "rs"}

Letters == {"B", "b"}

IsAlnum(c) == IsDigit(c) \/ c \in Letters \/ c \in Words

IsNameSep(c) == c \in {"-", "_", "."}

Lower(c) == IF c = "B" THEN "b" ELSE c

(***************************************************************************)
(* Decimal numbers: str::parse::<u64> and the Display of an integer.       *)
(***************************************************************************)
RECURSIVE ParseNat(_)
ParseNat(s) ==
    IF Len(s) = 0 THEN 0
    ELSE 10 * ParseNat(SubSeq(s, 1, Len(s) - 1)) + DigitVal(s[Len(s)])

RECURSIVE NatToString(_)
NatToString(n) ==
    IF n < 10 THEN <<Digits[n + 1]>>
    ELSE NatToString(n \div 10) \o <<Digits[(n % 10) + 1]>>

(***************************************************************************)
(* Results of the external sub-parsers.                                    *)
(***************************************************************************)
SubOk(v) == [ok |-> TRUE, val |-> v, why |-> "", text |-> <<>>]

SubErr(w, t) == [ok |-> FALSE, val |-> <<>>, why |-> w, text |-> t]

(***************************************************************************)
(* uv_normalize::PackageName: letters, digits and runs of "-", "_", ".",   *)
(* starting and ending with a letter or digit; normalised to lower case    *)
(* with every run of separators replaced by one "-".                       *)
(***************************************************************************)
RECURSIVE Normalize(_)
Normalize(s) ==
    IF Len(s) = 0 THEN <<>>
    ELSE IF IsNameSep(s[1])
         THEN IF Len(s) > 1 /\ IsNameSep(s[2])
              THEN Normalize(Tail(s))
              ELSE <<"-">> \o Normalize(Tail(s))
         ELSE <<Lower(s[1])>> \o Normalize(Tail(s))

PackageName_from_str(s) ==
    IF /\ Len(s) > 0
       /\ \A i \in 1..Len(s) : IsAlnum(s[i]) \/ IsNameSep(s[i])
       /\ IsAlnum(s[1])
       /\ IsAlnum(s[Len(s)])
    THEN SubOk(Normalize(s))
    ELSE SubErr("invalid package name", s)

as_dist_info_name(name) ==
    [i \in 1..Len(name) |-> IF name[i] = "-" THEN "_" ELSE name[i]]

(***************************************************************************)
(* uv_pep440::Version, release numbers only: one or more dot-separated     *)
(* runs of digits.  The value is the sequence of numbers, the canonical    *)
(* string its dot-joined decimal rendering.                                *)
(***************************************************************************)
IsNumber(s) == Len(s) > 0 /\ \A i \in 1..Len(s) : IsDigit(s[i])

Version_from_str(s) ==
    LET rel == split(s, ".")
    IN  IF \A i \in 1..Len(rel) : IsNumber(rel[i])
        THEN SubOk([i \in 1..Len(rel) |-> ParseNat(rel[i])])
        ELSE SubErr("expected version to start with a number", s)

Version_to_string(v) == join([i \in 1..Len(v) |-> NatToString(v[i])], ".")

(***************************************************************************)
(* BuildTag: a leading run of digits read as a number, and the remaining   *)
(* text, if any, as a suffix.                                              *)
(***************************************************************************)
BuildTag_from_str(s) ==
    LET nondigit == {i \in 1..Len(s) : ~IsDigit(s[i])}
        cut == IF nondigit = {} THEN Len(s) + 1
               ELSE CHOOSE i \in nondigit : \A j \in nondigit : i <= j
    IN  IF cut = 1 /\ nondigit # {} THEN SubErr("must start with a digit", s)
        ELSE IF cut = 1 THEN SubErr("cannot parse integer from empty string", s)
        ELSE SubOk([num |-> ParseNat(SubSeq(s, 1, cut - 1)),
                    suffix |-> IF nondigit = {} THEN None
                               ELSE Some(SubSeq(s, cut, Len(s)))])

BuildTag_to_string(b) ==
    NatToString(b.num) \o (IF is_some(b.suffix) THEN unwrap(b.suffix) ELSE <<>>)

(***************************************************************************)
(* uv_platform_tags: each tag parser accepts the words of its own grammar  *)
(* and yields an enum value; the Display of the value is the word.         *)
(***************************************************************************)
LanguageWords == {"none", "py3"}

AbiWords == {"none", "abi3"}

PlatformWords == {"any", "win32"}

TagValue(w) ==
    CASE w = "none"  -> "None"
      [] w = "py3"   -> "Python3"
      [] w = "abi3"  -> "Abi3"
      [] w = "any"   -> "Any"
      [] w = "win32" -> "Win32"

TagWord(v) ==
    CASE v = "None"    -> "none"
      [] v = "Python3" -> "py3"
      [] v = "Abi3"    -> "abi3"
      [] v = "Any"     -> "any"
      [] v = "Win32"   -> "win32"

Tag_from_str(words, what, s) ==
    IF Len(s) = 1 /\ s[1] \in words
    THEN SubOk(TagValue(s[1]))
    ELSE SubErr(what, s)

LanguageTag_from_str(s) == Tag_from_str(LanguageWords, "unknown language tag", s)

AbiTag_from_str(s) == Tag_from_str(AbiWords, "unknown abi tag", s)

PlatformTag_from_str(s) == Tag_from_str(PlatformWords, "unknown platform tag", s)

Tag_to_string(v) == <<TagWord(v)>>

(***************************************************************************)
(* WheelFilename, WheelFilenameError and Result<WheelFilename, _>.         *)
(***************************************************************************)
WheelFilename(n, v, b, py, abi, plat) ==
    [name |-> n, version |-> v, build_tag |-> b,
     python_tag |-> py, abi_tag |-> abi, platform_tag |-> plat]

NoWheel == WheelFilename(<<>>, <<>>, None, <<>>, <<>>, <<>>)

Ok(w) == [ok |-> TRUE, val |-> w, kind |-> "Ok", ctx |-> <<>>, msg |-> "",
          sub |-> <<>>]

WheelFilenameError(k, c, m, t) ==
    [ok |-> FALSE, val |-> NoWheel, kind |-> k, ctx |-> c, msg |-> m, sub |-> t]

InvalidWheelFileName(c, m) == WheelFilenameError("InvalidWheelFileName", c, m, <<>>)

NotRun == WheelFilenameError("NotRun", <<>>, "", <<>>)

(***************************************************************************)
(* WheelFilename::parse, first half: the segments of the stem are taken    *)
(* one by one and assigned to the raw fields by their number.              *)
(***************************************************************************)
RawOk(r) == [ok |-> TRUE, raw |-> r, err |-> NotRun]

RawErr(e) == [ok |-> FALSE, raw |-> NoWheel, err |-> e]

\* Variant: a seventh segment is not looked for.
components_unlimited(parts, filename) ==
    LET name                    == unwrap(next(parts, 1))
        version                 == next(parts, 2)
        build_tag_or_python_tag == next(parts, 3)
        python_tag_or_abi_tag   == next(parts, 4)
        abi_tag_or_platform_tag == next(parts, 5)
        platform_tag            == next(parts, 6)
    IN  IF ~is_some(version)
        THEN RawErr(InvalidWheelFileName(filename, "Must have a version"))
        ELSE IF ~is_some(build_tag_or_python_tag)
        THEN RawErr(InvalidWheelFileName(filename, "Must have a Python tag"))
        ELSE IF ~is_some(python_tag_or_abi_tag)
        THEN RawErr(InvalidWheelFileName(filename, "Must have an ABI tag"))
        ELSE IF ~is_some(abi_tag_or_platform_tag)
        THEN RawErr(InvalidWheelFileName(filename, "Must have a platform tag"))
        ELSE IF is_some(platform_tag)
        THEN RawOk(WheelFilename(name, unwrap(version),
                                 Some(unwrap(build_tag_or_python_tag)),
                                 unwrap(python_tag_or_abi_tag),
                                 unwrap(abi_tag_or_platform_tag),
                                 unwrap(platform_tag)))
        ELSE RawOk(WheelFilename(name, unwrap(version), None,
                                 unwrap(build_tag_or_python_tag),
                                 unwrap(python_tag_or_abi_tag),
                                 unwrap(abi_tag_or_platform_tag)))

\* Variant: with six segments the third is kept as the build tag only if it
\* starts with a digit, and is dropped otherwise.
components_by_content(parts, filename) ==
    LET name                    == unwrap(next(parts, 1))
        version                 == next(parts, 2)
        build_tag_or_python_tag == next(parts, 3)
        python_tag_or_abi_tag   == next(parts, 4)
        abi_tag_or_platform_tag == next(parts, 5)
        platform_tag            == next(parts, 6)
    IN  IF ~is_some(version)
        THEN RawErr(InvalidWheelFileName(filename, "Must have a version"))
        ELSE IF ~is_some(build_tag_or_python_tag)
        THEN RawErr(InvalidWheelFileName(filename, "Must have a Python tag"))
        ELSE IF ~is_some(python_tag_or_abi_tag)
        THEN RawErr(InvalidWheelFileName(filename, "Must have an ABI tag"))
        ELSE IF ~is_some(abi_tag_or_platform_tag)
        THEN RawErr(InvalidWheelFileName(filename, "Must have a platform tag"))
        ELSE IF is_some(platform_tag)
        THEN IF is_some(next(parts, 7))
             THEN RawErr(InvalidWheelFileName(filename,
                            "Must have 5 or 6 components, but has more"))
             ELSE RawOk(WheelFilename(name, unwrap(version),
                            IF BuildTag_from_str(unwrap(build_tag_or_python_tag)).ok
                            THEN Some(unwrap(build_tag_or_python_tag))
                            ELSE None,
                            unwrap(python_tag_or_abi_tag),
                            unwrap(abi_tag_or_platform_tag),
                            unwrap(platform_tag)))
        ELSE RawOk(WheelFilename(name, unwrap(version), None,
                                 unwrap(build_tag_or_python_tag),
                                 unwrap(python_tag_or_abi_tag),
                                 unwrap(abi_tag_or_platform_tag)))

components(parts, filename) ==
    LET name                    == unwrap(next(parts, 1))
        version                 == next(parts, 2)
        build_tag_or_python_tag == next(parts, 3)
        python_tag_or_abi_tag   == next(parts, 4)
        abi_tag_or_platform_tag == next(parts, 5)
        platform_tag            == next(parts, 6)
    IN  IF ~is_some(version)
        THEN RawErr(InvalidWheelFileName(filename, "Must have a version"))
        ELSE IF ~is_some(build_tag_or_python_tag)
        THEN RawErr(InvalidWheelFileName(filename, "Must have a Python tag"))
        ELSE IF ~is_some(python_tag_or_abi_tag)
        THEN RawErr(InvalidWheelFileName(filename, "Must have an ABI tag"))
        ELSE IF ~is_some(abi_tag_or_platform_tag)
        THEN RawErr(InvalidWheelFileName(filename, "Must have a platform tag"))
        ELSE IF is_some(platform_tag)
        THEN IF is_some(next(parts, 7))
             THEN RawErr(InvalidWheelFileName(filename,
                            "Must have 5 or 6 components, but has more"))
             ELSE RawOk(WheelFilename(name, unwrap(version),
                                      Some(unwrap(build_tag_or_python_tag)),
                                      unwrap(python_tag_or_abi_tag),
                                      unwrap(abi_tag_or_platform_tag),
                                      unwrap(platform_tag)))
        ELSE RawOk(WheelFilename(name, unwrap(version), None,
                                 unwrap(build_tag_or_python_tag),
                                 unwrap(python_tag_or_abi_tag),
                                 unwrap(abi_tag_or_platform_tag)))

(***************************************************************************)
(* .split('.').map(T::from_str).collect::<Result<_, _>>(): the tags in     *)
(* order, or the error of the first element that is rejected.              *)
(***************************************************************************)
tag_from_str(T, s) ==
    CASE T = "LanguageTag" -> LanguageTag_from_str(s)
      [] T = "AbiTag"      -> AbiTag_from_str(s)
      [] T = "PlatformTag" -> PlatformTag_from_str(s)

RECURSIVE collect(_, _)
collect(T, elems) ==
    IF Len(elems) = 0 THEN SubOk(<<>>)
    ELSE LET head == tag_from_str(T, elems[1])
         IN  IF ~head.ok THEN head
             ELSE LET rest == collect(T, Tail(elems))
                  IN  IF rest.ok THEN SubOk(<<head.val>> \o rest.val) ELSE rest

\* Variant: only the first dot-separated element is read.
tag_set_first_only(T, segment) ==
    collect(T, <<split(segment, ".")[1]>>)

tag_set(T, segment) == collect(T, split(segment, "."))

(***************************************************************************)
(* WheelFilename::parse, second half: the raw fields go through their      *)
(* parsers in order, and the first rejection is returned.                  *)
(***************************************************************************)
\* Variant: the version is checked before the package name.
validate_version_first(raw, filename) ==
    LET name      == PackageName_from_str(raw.name)
        version   == Version_from_str(raw.version)
        build_tag == IF is_some(raw.build_tag)
                     THEN BuildTag_from_str(unwrap(raw.build_tag))
                     ELSE SubOk(<<>>)
        python_tag   == tag_set("LanguageTag", raw.python_tag)
        abi_tag      == tag_set("AbiTag", raw.abi_tag)
        platform_tag == tag_set("PlatformTag", raw.platform_tag)
    IN  IF ~version.ok
        THEN WheelFilenameError("InvalidVersion", filename, version.why, version.text)
        ELSE IF ~name.ok
        THEN WheelFilenameError("InvalidPackageName", filename, name.why, name.text)
        ELSE IF ~build_tag.ok
        THEN WheelFilenameError("InvalidBuildTag", filename, build_tag.why,
                                build_tag.text)
        ELSE IF ~python_tag.ok
        THEN WheelFilenameError("InvalidLanguageTag", filename, python_tag.why,
                                python_tag.text)
        ELSE IF ~abi_tag.ok
        THEN WheelFilenameError("InvalidAbiTag", filename, abi_tag.why, abi_tag.text)
        ELSE IF ~platform_tag.ok
        THEN WheelFilenameError("InvalidPlatformTag", filename, platform_tag.why,
                                platform_tag.text)
        ELSE Ok(WheelFilename(name.val, version.val,
                              IF is_some(raw.build_tag) THEN Some(build_tag.val)
                              ELSE None,
                              python_tag.val, abi_tag.val, platform_tag.val))

validate(raw, filename) ==
    LET name      == PackageName_from_str(raw.name)
        version   == Version_from_str(raw.version)
        build_tag == IF is_some(raw.build_tag)
                     THEN BuildTag_from_str(unwrap(raw.build_tag))
                     ELSE SubOk(<<>>)
        python_tag   == tag_set("LanguageTag", raw.python_tag)
        abi_tag      == tag_set("AbiTag", raw.abi_tag)
        platform_tag == tag_set("PlatformTag", raw.platform_tag)
    IN  IF ~name.ok
        THEN WheelFilenameError("InvalidPackageName", filename, name.why, name.text)
        ELSE IF ~version.ok
        THEN WheelFilenameError("InvalidVersion", filename, version.why, version.text)
        ELSE IF ~build_tag.ok
        THEN WheelFilenameError("InvalidBuildTag", filename, build_tag.why,
                                build_tag.text)
        ELSE IF ~python_tag.ok
        THEN WheelFilenameError("InvalidLanguageTag", filename, python_tag.why,
                                python_tag.text)
        ELSE IF ~abi_tag.ok
        THEN WheelFilenameError("InvalidAbiTag", filename, abi_tag.why, abi_tag.text)
        ELSE IF ~platform_tag.ok
        THEN WheelFilenameError("InvalidPlatformTag", filename, platform_tag.why,
                                platform_tag.text)
        ELSE Ok(WheelFilename(name.val, version.val,
                              IF is_some(raw.build_tag) THEN Some(build_tag.val)
                              ELSE None,
                              python_tag.val, abi_tag.val, platform_tag.val))

parse(stem, filename) ==
    LET c == components(split(stem, "-"), filename)
    IN  IF c.ok THEN validate(c.raw, filename) ELSE c.err

(***************************************************************************)
(* impl FromStr for WheelFilename.                                         *)
(***************************************************************************)
\* Variant: a text without the extension is parsed as it stands.
from_str_any_extension(filename) ==
    LET stem == strip_suffix(filename, WhlSuffix)
    IN  IF ~is_some(stem)
        THEN parse(filename, filename)
        ELSE parse(unwrap(stem), filename)

\* Variant: the stem, not the filename, is handed on as the error context.
from_str_stem_context(filename) ==
    LET stem == strip_suffix(filename, WhlSuffix)
    IN  IF ~is_some(stem)
        THEN InvalidWheelFileName(filename, "Must end with .whl")
        ELSE parse(unwrap(stem), unwrap(stem))

from_str(filename) ==
    LET stem == strip_suffix(filename, WhlSuffix)
    IN  IF ~is_some(stem)
        THEN InvalidWheelFileName(filename, "Must end with .whl")
        ELSE parse(unwrap(stem), filename)

from_stem(stem) == parse(stem, stem)

(***************************************************************************)
(* WheelFilename::get_tag, stem and impl Display.                          *)
(***************************************************************************)
tags_to_strings(tags) == [i \in 1..Len(tags) |-> Tag_to_string(tags[i])]

get_tag(self) ==
    IF Len(self.python_tag) = 1 /\ Len(self.abi_tag) = 1
       /\ Len(self.platform_tag) = 1
    THEN Tag_to_string(self.python_tag[1]) \o <<"-">>
         \o Tag_to_string(self.abi_tag[1]) \o <<"-">>
         \o Tag_to_string(self.platform_tag[1])
    ELSE join(tags_to_strings(self.python_tag), ".") \o <<"-">>
         \o join(tags_to_strings(self.abi_tag), ".") \o <<"-">>
         \o join(tags_to_strings(self.platform_tag), ".")

stem(self) ==
    as_dist_info_name(self.name) \o <<"-">> \o Version_to_string(self.version)
    \o <<"-">> \o get_tag(self)

\* Variant: the name is written in its normalised form, dashes included.
fmt_display_name(self) ==
    self.name \o <<"-">> \o Version_to_string(self.version)
    \o <<"-">> \o get_tag(self) \o WhlSuffix

fmt(self) ==
    as_dist_info_name(self.name) \o <<"-">> \o Version_to_string(self.version)
    \o <<"-">> \o get_tag(self) \o WhlSuffix

(***************************************************************************)
(* url::Url: the serialization is the text before the path followed by     *)
(* the path; path_segments is None unless the path starts with "/".        *)
(***************************************************************************)
Url(b, p) == [before |-> b, path |-> p]

url_to_string(url) == url.before \o url.path

path_segments(url) ==
    IF Len(url.path) > 0 /\ url.path[1] = "/"
    THEN Some(split(Tail(url.path), "/"))
    ELSE None

last(it) == IF Len(it) = 0 THEN None ELSE Some(it[Len(it)])

(***************************************************************************)
(* impl TryFrom<&Url> for WheelFilename.                                   *)
(***************************************************************************)
\* Variant: the errors of the filename are re-issued with the URL as context.
try_from_url_context(url) ==
    LET segments == path_segments(url)
    IN  IF ~is_some(segments)
        THEN InvalidWheelFileName(url_to_string(url), "URL must have a path")
        ELSE LET filename == last(unwrap(segments))
             IN  IF ~is_some(filename)
                 THEN InvalidWheelFileName(url_to_string(url),
                                           "URL must contain a filename")
                 ELSE LET r == from_str(unwrap(filename))
                      IN  IF r.ok THEN r
                          ELSE [r EXCEPT !.ctx = url_to_string(url)]

try_from(url) ==
    LET segments == path_segments(url)
    IN  IF ~is_some(segments)
        THEN InvalidWheelFileName(url_to_string(url), "URL must have a path")
        ELSE LET filename == last(unwrap(segments))
             IN  IF ~is_some(filename)
                 THEN InvalidWheelFileName(url_to_string(url),
                                           "URL must contain a filename")
                 ELSE from_str(unwrap(filename))

(***************************************************************************)
(* impl Serialize / Deserialize: the record is carried as its filename;    *)
(* a rejected filename becomes a custom error holding only the message.    *)
(***************************************************************************)
serialize(self) == fmt(self)

deserialize(s) ==
    LET r == from_str(s)
    IN  IF r.ok THEN r
        ELSE WheelFilenameError("de::Error::custom", r.ctx, r.msg, r.sub)

(***************************************************************************)
(* The inputs.  A filename is a stem of 1..MaxSegs segments joined by "-", *)
(* with or without an extension.  Every segment of a stem comes from       *)
(* SegPool whatever its position; the stems of 5 and 6 segments are also   *)
(* built from the richer samples of each field.                            *)
(***************************************************************************)
SegPool == {<<>>, <<"0", "1">>, <<"none">>, <<"any">>}

NameSamples == {<<"B">>, <<"none", ".", "_", "B">>, <<"B", "!">>}

VersionSamples == {<<"0", "1", ".", "2">>, <<"B">>}

BuildSamples == {<<"0", "1">>, <<"2", "B">>, <<"py3">>}

TagSamples ==
    {<<"none">>, <<"any">>,
     <<"py3", ".", "none">>, <<"none", ".", "abi3">>, <<"win32", ".", "any">>,
     <<"none", ".">>, <<"!", ".", "B">>}

Suffixes == {<<>>, WhlSuffix}

Extensions == {<<>>, WhlSuffix, <<".", "rs">>}

Segments == UNION {[1..n -> SegPool] : n \in 1..MaxSegs}

Fields ==
    {<<n, v>> \o b \o <<py, abi, plat>> :
        n \in NameSamples, v \in VersionSamples,
        b \in {<<>>} \cup {<<x>> : x \in BuildSamples},
        py \in TagSamples, abi \in TagSamples, plat \in TagSamples}

UrlsOf(filename) ==
    {Url(<<"https:", "/", "/", "h">>, <<"/", "d", "/">> \o filename),
     Url(<<"mailto:">>, filename)}

(***************************************************************************)
(* State: the text at hand (input), how it was produced (via: "given", or  *)
(* the rendering that wrote it) and from which record (origin); the entry  *)
(* point that last read it (entry), the URL it was read from, if any, and  *)
(* what that entry point returned (result).                                *)
(***************************************************************************)
VARIABLES input, via, origin, pc, entry, url, result

vars == <<input, via, origin, pc, entry, url, result>>

Init ==
    /\ \/ \E ss \in Segments : \E x \in Suffixes : input = join(ss, "-") \o x
       \/ \E ss \in Fields : \E x \in Extensions : input = join(ss, "-") \o x
    /\ via = "given"
    /\ origin = None
    /\ pc = "start"
    /\ entry = "none"
    /\ url = None
    /\ result = NotRun

Parsed(e, u, r) ==
    /\ pc = "start"
    /\ pc' = "parsed"
    /\ entry' = e
    /\ url' = u
    /\ result' = r
    /\ UNCHANGED <<input, via, origin>>

FromStr == Parsed("from_str", None, from_str(input))

FromStem == Parsed("from_stem", None, from_stem(input))

TryFrom == \E u \in UrlsOf(input) : Parsed("try_from", Some(u), try_from(u))

Deserialize == Parsed("deserialize", None, deserialize(input))

Rendered(v, text) ==
    /\ pc = "parsed"
    /\ result.ok
    /\ input' = text
    /\ via' = v
    /\ origin' = Some(result.val)
    /\ pc' = "start"
    /\ entry' = "none"
    /\ url' = None
    /\ result' = NotRun

Display == Rendered("fmt", fmt(result.val))

Stem == Rendered("stem", stem(result.val))

Serialize == Rendered("serialize", serialize(result.val))

Next ==
    \/ FromStr
    \/ FromStem
    \/ TryFrom
    \/ Deserialize
    \/ Display
    \/ Stem
    \/ Serialize

Spec == Init /\ [][Next]_vars

(***************************************************************************)
(* Vocabulary of the properties.                                           *)
(***************************************************************************)
HasWhl == is_some(strip_suffix(input, WhlSuffix))

ReadByStr == pc = "parsed" /\ entry = "from_str"

ReadByStem == pc = "parsed" /\ entry = "from_stem"

ReadByUrl == pc = "parsed" /\ entry = "try_from"

\* The stem the segments are counted on: what from_str leaves after the
\* extension, and the whole text for from_stem.
TheStem == IF entry = "from_stem" THEN input
           ELSE SubSeq(input, 1, Len(input) - Len(WhlSuffix))

Dashes(s) == Cardinality({i \in 1..Len(s) : s[i] = "-"})

NSegs == Dashes(TheStem) + 1

Seg(i) == split(TheStem, "-")[i]

\* A stem was split: from_stem always does, from_str and the URL entry (on
\* the last path segment) when the extension is there.
SplitDone ==
    \/ ReadByStem
    \/ ReadByStr /\ HasWhl
    \/ ReadByUrl /\ HasWhl /\ is_some(path_segments(unwrap(url)))

Structural(m) == result = InvalidWheelFileName(input, m)

Dots(s) == Cardinality({i \in 1..Len(s) : s[i] = "."})

\* The leftmost dot-separated element of a segment that its parser rejects.
Accepts(T, s) ==
    CASE T = "LanguageTag" -> LanguageTag_from_str(s).ok
      [] T = "AbiTag"      -> AbiTag_from_str(s).ok
      [] T = "PlatformTag" -> PlatformTag_from_str(s).ok

ValueOf(T, s) ==
    CASE T = "LanguageTag" -> LanguageTag_from_str(s).val
      [] T = "AbiTag"      -> AbiTag_from_str(s).val
      [] T = "PlatformTag" -> PlatformTag_from_str(s).val

FirstRejected(T, seg) ==
    LET es == split(seg, ".")
        k  == CHOOSE i \in 1..Len(es) :
                  ~Accepts(T, es[i]) /\ \A j \in 1..(i - 1) : Accepts(T, es[j])
    IN  es[k]

AllAccepted(T, seg) ==
    \A i \in 1..Len(split(seg, ".")) : Accepts(T, split(seg, ".")[i])

\* The error the claim of validation order expects for a stem of 5 or 6
\* segments: <<kind, rejected text>>, or <<"Ok", <<>>>>.
Expected ==
    LET n == NSegs
    IN  IF ~PackageName_from_str(Seg(1)).ok THEN <<"InvalidPackageName", Seg(1)>>
        ELSE IF ~Version_from_str(Seg(2)).ok THEN <<"InvalidVersion", Seg(2)>>
        ELSE IF n = 6 /\ ~BuildTag_from_str(Seg(3)).ok
        THEN <<"InvalidBuildTag", Seg(3)>>
        ELSE IF ~AllAccepted("LanguageTag", Seg(n - 2))
        THEN <<"InvalidLanguageTag", FirstRejected("LanguageTag", Seg(n - 2))>>
        ELSE IF ~AllAccepted("AbiTag", Seg(n - 1))
        THEN <<"InvalidAbiTag", FirstRejected("AbiTag", Seg(n - 1))>>
        ELSE IF ~AllAccepted("PlatformTag", Seg(n))
        THEN <<"InvalidPlatformTag", FirstRejected("PlatformTag", Seg(n))>>
        ELSE <<"Ok", <<>>>>

(***************************************************************************)
(* C1.  Round trip: a record rendered by fmt and read back by from_str is  *)
(* returned equal in all six fields, build tag included.                   *)
(***************************************************************************)
C1_RoundTrip ==
    (ReadByStr /\ via = "fmt") => result = Ok(unwrap(origin))

(***************************************************************************)
(* C2.  Rendering of the build tag: fmt and stem write 5 dash-separated    *)
(* segments for a record without build tag, and 6 with the build tag's     *)
(* string as the third for a record with one.                              *)
(***************************************************************************)
C2_BuildTagRendered ==
    (pc = "start" /\ via \in {"fmt", "stem"}) =>
        LET r    == unwrap(origin)
            body == IF via = "fmt"
                    THEN SubSeq(input, 1, Len(input) - Len(WhlSuffix))
                    ELSE input
        IN  /\ via = "fmt" => HasWhl
            /\ ~is_some(r.build_tag) => Dashes(body) + 1 = 5
            /\ is_some(r.build_tag) =>
                   /\ Dashes(body) + 1 = 6
                   /\ split(body, "-")[3] = BuildTag_to_string(unwrap(r.build_tag))

(***************************************************************************)
(* C3.  Segment-count boundary: for an input ending in .whl the outcome of *)
(* from_str is fixed by the number of segments alone when that number is   *)
(* not 5 or 6, and only 5 or 6 segments reach the sub-parsers.             *)
(***************************************************************************)
C3_SegmentCount ==
    (ReadByStr /\ HasWhl) =>
        /\ NSegs = 1 => Structural("Must have a version")
        /\ NSegs = 2 => Structural("Must have a Python tag")
        /\ NSegs = 3 => Structural("Must have an ABI tag")
        /\ NSegs = 4 => Structural("Must have a platform tag")
        /\ NSegs >= 7 => Structural("Must have 5 or 6 components, but has more")
        /\ NSegs \in {5, 6} => result.kind # "InvalidWheelFileName"

C3_Witness ==
    /\ ReadByStr /\ HasWhl
    /\ NSegs >= 7
    /\ ~PackageName_from_str(Seg(1)).ok
    /\ Structural("Must have 5 or 6 components, but has more")

(***************************************************************************)
(* C4.  The build tag is decided by the segment count: a record has no     *)
(* build tag iff its stem had 5 segments and has the parsed third segment  *)
(* iff it had 6; with 5 the third segment is read as the python tag, with  *)
(* 6 it goes to the build-tag parser and a rejection is final.             *)
(***************************************************************************)
C4_BuildTagByCount ==
    (SplitDone /\ NSegs \in {5, 6}) =>
        /\ result.ok =>
               /\ ~is_some(result.val.build_tag) <=> NSegs = 5
               /\ is_some(result.val.build_tag) <=> NSegs = 6
               /\ NSegs = 6 =>
                      result.val.build_tag = Some(BuildTag_from_str(Seg(3)).val)
        /\ NSegs = 5 => result.kind # "InvalidBuildTag"
        /\ (/\ NSegs = 5
            /\ PackageName_from_str(Seg(1)).ok
            /\ Version_from_str(Seg(2)).ok
            /\ ~AllAccepted("LanguageTag", Seg(3)))
               => result.kind = "InvalidLanguageTag"
        /\ (/\ NSegs = 6
            /\ PackageName_from_str(Seg(1)).ok
            /\ Version_from_str(Seg(2)).ok
            /\ ~BuildTag_from_str(Seg(3)).ok)
               => result.kind = "InvalidBuildTag"

C4_Witness ==
    /\ ReadByStr /\ HasWhl
    /\ NSegs = 5
    /\ BuildTag_from_str(Seg(3)).ok
    /\ result.kind = "InvalidLanguageTag"
    /\ result.sub = Seg(3)

(***************************************************************************)
(* C5.  Extension requirement: from_str of a text that does not end with   *)
(* .whl is the missing-extension error, whatever the text holds.           *)
(***************************************************************************)
C5_MissingExtension ==
    (ReadByStr /\ ~HasWhl) => Structural("Must end with .whl")

C5_Witness ==
    /\ ReadByStr /\ ~HasWhl
    /\ from_stem(input).ok
    /\ Structural("Must end with .whl")

(***************************************************************************)
(* C6.  As claimed: every error of the URL entry point carries the URL's   *)
(* string form.                                                            *)
(***************************************************************************)
C6_UrlContext ==
    (ReadByUrl /\ ~result.ok) => result.ctx = url_to_string(unwrap(url))

(***************************************************************************)
(* C6, amended.  The URL's string form is the context of the two errors    *)
(* of the URL itself (no path, no filename); every error of the filename   *)
(* carries the extracted last path segment.                                *)
(***************************************************************************)
UrlMessages == {"URL must have a path", "URL must contain a filename"}

C6_UrlContextAmended ==
    (ReadByUrl /\ ~result.ok) =>
        /\ ~is_some(path_segments(unwrap(url))) =>
               /\ result.msg \in UrlMessages
               /\ result.ctx = url_to_string(unwrap(url))
        /\ is_some(path_segments(unwrap(url))) =>
               /\ result.msg \notin UrlMessages
               /\ result.ctx = input

C6_Witness ==
    /\ ReadByUrl
    /\ result.kind = "InvalidPackageName"
    /\ result.ctx = input
    /\ result.ctx # url_to_string(unwrap(url))

(***************************************************************************)
(* C7.  Every error of from_str carries the text it was given, extension   *)
(* included, and every error of from_stem the stem it was given.           *)
(***************************************************************************)
C7_ErrorContext ==
    ((ReadByStr \/ ReadByStem) /\ ~result.ok) => result.ctx = input

C7_Witness ==
    /\ ReadByStr /\ HasWhl
    /\ result.kind = "InvalidPlatformTag"
    /\ result.ctx = input

(***************************************************************************)
(* C8.  Fail-fast order: with 5 or 6 segments the one error returned is    *)
(* that of the first rejected field in the order name, version, build tag, *)
(* python, abi, platform tags, for a tag set that of its leftmost rejected *)
(* element; a record is returned only when nothing is rejected.            *)
(***************************************************************************)
C8_FailFast ==
    (SplitDone /\ NSegs \in {5, 6}) =>
        /\ result.kind = Expected[1]
        /\ result.sub = Expected[2]
        /\ result.ok <=> Expected[1] = "Ok"

C8_Witness ==
    /\ ReadByStr /\ HasWhl
    /\ NSegs = 6
    /\ ~BuildTag_from_str(Seg(3)).ok
    /\ Len(split(Seg(4), ".")) = 2
    /\ \A i \in 1..2 : ~LanguageTag_from_str(split(Seg(4), ".")[i]).ok
    /\ split(Seg(4), ".")[1] # split(Seg(4), ".")[2]
    /\ ~AllAccepted("AbiTag", Seg(5))
    /\ result.kind = "InvalidBuildTag"

(***************************************************************************)
(* C9.  Every record has one tag per dot-separated element of the source   *)
(* segment, so at least one, in the order of the segment; no element is    *)
(* dropped, so an empty element stands only if the tag parser accepts it.  *)
(***************************************************************************)
TagsOf(T, tags, seg) ==
    LET es == split(seg, ".")
    IN  /\ Len(tags) >= 1
        /\ Len(tags) = Dots(seg) + 1
        /\ \A i \in 1..Len(es) : Accepts(T, es[i]) /\ tags[i] = ValueOf(T, es[i])

C9_TagSets ==
    (pc = "parsed" /\ result.ok) =>
        /\ TagsOf("LanguageTag", result.val.python_tag, Seg(NSegs - 2))
        /\ TagsOf("AbiTag", result.val.abi_tag, Seg(NSegs - 1))
        /\ TagsOf("PlatformTag", result.val.platform_tag, Seg(NSegs))

C9_Witness ==
    /\ pc = "parsed" /\ result.ok
    /\ result.val.python_tag = <<"Python3", "None">>
    /\ result.val.platform_tag = <<"Win32", "Any">>

(***************************************************************************)
(* C10.  Canonical text is a fixed point: text written by fmt (or          *)
(* serialize) is accepted by from_str (or deserialize), and writing the    *)
(* record read back gives the same text again.                             *)
(***************************************************************************)
Canonical ==
    /\ pc = "parsed"
    /\ \/ via = "fmt" /\ entry = "from_str"
       \/ via = "serialize" /\ entry = "deserialize"

C10_Idempotent ==
    /\ [](Canonical => result.ok)
    /\ [][Canonical => (via' = via => input' = input)]_vars

C10_Witness ==
    /\ Canonical
    /\ result.ok
    /\ is_some(unwrap(origin).build_tag)
    /\ Len(result.val.python_tag) = 2
    /\ "_" \in {input[i] : i \in 1..Len(input)}

====
